---- MODULE Spec2Model ----
(***************************************************************************)
(* Model of the e-commerce backend: the Express application assembled in   *)
(* backend/server.js, the product route table of routes/productRoutes.js,  *)
(* the database connector (config/db.js) and the User schema with its      *)
(* password hashing hook.                                                  *)
(*                                                                         *)
(* Two state machines share the module.  SpecServer is the running         *)
(* process: database connection, HTTP connections, request dispatch        *)
(* through the middleware stack, process-level crash handlers.  SpecUser   *)
(* is the life of User documents: construct, load, set, save, compare.     *)
(* Spec is SpecServer.                                                     *)
(***************************************************************************)
EXTENDS Integers, Sequences, FiniteSets, TLC

VARIABLES mode, db, server, proc, exitCode, exitBy, logs, conns, products,
          last, events, closeCbs, users, docs, saveLog, matchLog

srvVars == <<mode, db, server, proc, exitCode, exitBy, logs, conns,
             products, last, events, closeCbs>>
usrVars == <<users, docs, saveLog, matchLog>>
vars == <<mode, db, server, proc, exitCode, exitBy, logs, conns, products,
          last, events, closeCbs, users, docs, saveLog, matchLog>>

None == "none"

(***************************************************************************)
(* Bounds of the model.                                                    *)
(***************************************************************************)
\* number of client connections that can be open at once
MaxConns == 2
\* a product's revision counter stops here (1 = just created)
MaxRev == 2
\* crashes (unhandled rejections, uncaught exceptions) in one run
MaxCrashes == 2

\* saves in one run
MaxSaves == 3
\* distinct random salts bcrypt.genSalt can return
MaxSalts == 2

Conns == 1..MaxConns

(***************************************************************************)
(* Requests.  A path is the sequence of its segments.                      *)
(***************************************************************************)
HasPrefix(p, pre) ==
  /\ Len(p) >= Len(pre)
  /\ \A i \in 1..Len(pre) : p[i] = pre[i]

Strip(p, pre) == SubSeq(p, Len(pre) + 1, Len(p))

UnderApi(p) == HasPrefix(p, <<"api">>)

GoodId == "64b7f0c2a1d3e4f5a6b7c8d9"
BadId == "not-a-valid-id"

Methods == {"GET", "POST", "PUT", "DELETE"}
Creds == {"none", "user", "admin"}
\* how a controller behaves once it is reached: it answers, forwards an
\* error with next(err), returns a promise that rejects with nobody
\* catching it, or throws from a detached callback
Outcomes == {"ok", "error", "reject", "throw"}

Paths ==
  { <<>>, <<"cart">>, <<"static", "app.js">>,
    <<"uploads", "image.jpg">>, <<"uploads", "missing.jpg">>,
    <<"api">>, <<"api", "unknown">>,
    <<"api", "products">>, <<"api", "products", "top">>,
    <<"api", "products", GoodId>>, <<"api", "products", BadId>>,
    <<"api", "products", GoodId, "reviews">>,
    <<"api", "products", BadId, "reviews">>,
    <<"api", "users">>, <<"api", "orders">>, <<"api", "upload">>,
    <<"api", "config">> }

ProductPaths == { p \in Paths : HasPrefix(p, <<"api", "products">>) }

\* every method and credential on the product routes; the other paths are
\* visited anonymously
Requests ==
  [method : Methods, path : ProductPaths, cred : Creds]
  \cup [method : {"GET", "POST"}, path : Paths \ ProductPaths,
        cred : {"none"}]

\* the requests used where the process, not the routing, is observed
ProbeRequests ==
  { [method |-> "GET", path |-> <<"api">>, cred |-> "none"],
    [method |-> "GET", path |-> <<"api", "products">>, cred |-> "none"],
    [method |-> "POST", path |-> <<"api", "products">>, cred |-> "admin"] }

\* files present under ./uploads and ./frontend/build
UploadFiles == { <<"image.jpg">> }
BuildFiles == { <<"static", "app.js">>, <<"index.html">> }


(***************************************************************************)
(* Product collection: revision per identifier, 0 = no such document.      *)
(***************************************************************************)
OtherId == "64b7f0c2a1d3e4f5a6b7c8da"
ProductIds == {GoodId, OtherId}

\* what a request did to the collection
ApplyOp(prods, op, id) ==
  CASE op = "create" ->
         LET fresh == CHOOSE p \in ProductIds : prods[p] = 0
         IN [prods EXCEPT ![fresh] = 1]
    [] op = "update" -> [prods EXCEPT ![id] = @ + 1]
    [] op = "review" -> [prods EXCEPT ![id] = @ + 1]
    [] op = "delete" -> [prods EXCEPT ![id] = 0]
    [] OTHER -> prods

\* the bounded collection can take the operation
OpFits(prods, op, id) ==
  CASE op = "create" -> \E p \in ProductIds : prods[p] = 0
    [] op \in {"update", "review"} -> prods[id] < MaxRev
    [] OTHER -> TRUE

(***************************************************************************)
(* Route guards (middleware/authMiddleware.js, middleware/checkObjectId.js)*)
(***************************************************************************)
Guards == {"protect", "admin", "checkObjectId"}

WellFormedIds == {GoodId, OtherId}

GuardAccepts(g, req, id) ==
  CASE g = "protect" -> req.cred # "none"
    [] g = "admin" -> req.cred = "admin"
    [] g = "checkObjectId" -> id \in WellFormedIds

GuardStatus(g) ==
  CASE g = "protect" -> 401
    [] g = "admin" -> 403
    [] g = "checkObjectId" -> 404

(***************************************************************************)
(* Controllers (controllers/productController.js and the controllers       *)
(* behind the other four routers).                                         *)
(***************************************************************************)
Sent(status, body, op) ==
  [kind |-> "sent", status |-> status, body |-> body, op |-> op]
Failed(status) ==
  [kind |-> "err", status |-> status, body |-> None, op |-> None]
Crashed(how) ==
  [kind |-> how, status |-> 0, body |-> None, op |-> None]

Controller(h, id, oc, prods) ==
  LET exists == id \in ProductIds /\ prods[id] > 0 IN
  CASE oc = "error" -> Failed(500)
    [] oc \in {"reject", "throw"} -> Crashed(oc)
    [] OTHER ->
       CASE h = "createProduct" -> Sent(201, "json", "create")
         [] h = "getProductById" ->
              IF exists THEN Sent(200, "json", None) ELSE Failed(404)
         [] h = "updateProduct" ->
              IF exists THEN Sent(200, "json", "update") ELSE Failed(404)
         [] h = "deleteProduct" ->
              IF exists THEN Sent(200, "json", "delete") ELSE Failed(404)
         [] h = "createProductReview" ->
              IF exists THEN Sent(201, "json", "review") ELSE Failed(404)
         [] OTHER -> Sent(200, "json", None)

(***************************************************************************)
(* routes/productRoutes.js                                                 *)
(***************************************************************************)
Route(pat, method, chain) ==
  [pat |-> pat, method |-> method, chain |-> chain]

\* the table with admin left out of the POST chain
ProductRoutes_NoAdmin ==
  << Route("/", "GET", <<"getProducts">>),
     Route("/", "POST", <<"protect", "createProduct">>),
     Route("/top", "GET", <<"getTopProducts">>),
     Route("/:id", "GET", <<"checkObjectId", "getProductById">>),
     Route("/:id", "PUT",
           <<"protect", "admin", "checkObjectId", "updateProduct">>),
     Route("/:id", "DELETE",
           <<"protect", "admin", "checkObjectId", "deleteProduct">>),
     Route("/:id/reviews", "POST",
           <<"protect", "checkObjectId", "createProductReview">>) >>

\* the table with checkObjectId left out of the GET chain
ProductRoutes_NoIdCheck ==
  << Route("/", "GET", <<"getProducts">>),
     Route("/", "POST", <<"protect", "admin", "createProduct">>),
     Route("/top", "GET", <<"getTopProducts">>),
     Route("/:id", "GET", <<"getProductById">>),
     Route("/:id", "PUT",
           <<"protect", "admin", "checkObjectId", "updateProduct">>),
     Route("/:id", "DELETE",
           <<"protect", "admin", "checkObjectId", "deleteProduct">>),
     Route("/:id/reviews", "POST",
           <<"protect", "checkObjectId", "createProductReview">>) >>

ProductRoutes ==
  << Route("/", "GET", <<"getProducts">>),
     Route("/", "POST", <<"protect", "admin", "createProduct">>),
     Route("/top", "GET", <<"getTopProducts">>),
     Route("/:id", "GET", <<"checkObjectId", "getProductById">>),
     Route("/:id", "PUT",
           <<"protect", "admin", "checkObjectId", "updateProduct">>),
     Route("/:id", "DELETE",
           <<"protect", "admin", "checkObjectId", "deleteProduct">>),
     Route("/:id/reviews", "POST",
           <<"protect", "checkObjectId", "createProductReview">>) >>

\* path-to-pattern matching inside the router; sub is the path below the mount
PatMatches(pat, sub) ==
  CASE pat = "/" -> sub = <<>>
    [] pat = "/top" -> sub = <<"top">>
    [] pat = "/:id" -> Len(sub) = 1
    [] pat = "/:id/reviews" -> Len(sub) = 2 /\ sub[2] = "reviews"
    [] OTHER -> FALSE

RouteMatches(r, req, sub) == r.method = req.method /\ PatMatches(r.pat, sub)

\* req.params.id
ParamId(sub) == IF Len(sub) >= 1 THEN sub[1] ELSE None

\* the functions of one route run left to right; a guard that rejects
\* forwards its error and nothing after it in the chain runs
RECURSIVE RunChain(_, _, _, _, _, _, _)
RunChain(chain, k, req, id, oc, prods, trace) ==
  LET f == chain[k] IN
  IF f \in Guards
  THEN IF GuardAccepts(f, req, id)
       THEN RunChain(chain, k + 1, req, id, oc, prods, Append(trace, f))
       ELSE [trace |-> Append(trace, f), out |-> Failed(GuardStatus(f))]
  ELSE [trace |-> Append(trace, f), out |-> Controller(f, id, oc, prods)]

NoMatch == [kind |-> "next", status |-> 0, body |-> None, op |-> None]

\* the router tries its routes in declaration order
RECURSIVE RunRouter(_, _, _, _, _, _, _)
RunRouter(routes, n, req, sub, oc, prods, trace) ==
  IF n > Len(routes)
  THEN [trace |-> trace, out |-> NoMatch]
  ELSE IF RouteMatches(routes[n], req, sub)
       THEN RunChain(routes[n].chain, 1, req, ParamId(sub), oc, prods, trace)
       ELSE RunRouter(routes, n + 1, req, sub, oc, prods, trace)

\* userRoutes, orderRoutes, uploadRoutes, configRoutes: one route at the
\* mount point, answered by that router's controller
ExternalRoutes(name) == << Route("/", "GET", <<name>>),
                           Route("/", "POST", <<name>>) >>

(***************************************************************************)
(* backend/server.js: the middleware stack, in mount order.                *)
(***************************************************************************)
Modes == {"development", "production", "test"}

Layer(name, kind, path) == [name |-> name, kind |-> kind, path |-> path]

\* the stack with notFound mounted before the static and frontend layers
StackFor_EarlyNotFound(m) ==
  << Layer("cors", "use", <<>>),
     Layer("json", "use", <<>>),
     Layer("urlencoded", "use", <<>>) >>
  \o (IF m = "development"
      THEN << Layer("morgan", "use", <<>>) >> ELSE << >>)
  \o << Layer("health", "get", <<"api">>),
        Layer("productRoutes", "router", <<"api", "products">>),
        Layer("userRoutes", "router", <<"api", "users">>),
        Layer("orderRoutes", "router", <<"api", "orders">>),
        Layer("uploadRoutes", "router", <<"api", "upload">>),
        Layer("configRoutes", "router", <<"api", "config">>),
        Layer("notFound", "notFound", <<>>),
        Layer("staticUploads", "static", <<"uploads">>) >>
  \o (IF m = "production"
      THEN << Layer("staticBuild", "static", <<>>),
              Layer("frontend", "getAll", <<>>) >>
      ELSE << Layer("devRoot", "get", <<>>) >>)
  \o << Layer("errorHandler", "errorHandler", <<>>) >>

StackFor(m) ==
  << Layer("cors", "use", <<>>),
     Layer("json", "use", <<>>),
     Layer("urlencoded", "use", <<>>) >>
  \o (IF m = "development"
      THEN << Layer("morgan", "use", <<>>) >> ELSE << >>)
  \o << Layer("health", "get", <<"api">>),
        Layer("productRoutes", "router", <<"api", "products">>),
        Layer("userRoutes", "router", <<"api", "users">>),
        Layer("orderRoutes", "router", <<"api", "orders">>),
        Layer("uploadRoutes", "router", <<"api", "upload">>),
        Layer("configRoutes", "router", <<"api", "config">>),
        Layer("staticUploads", "static", <<"uploads">>) >>
  \o (IF m = "production"
      THEN << Layer("staticBuild", "static", <<>>),
              Layer("frontend", "getAll", <<>>) >>
      ELSE << Layer("devRoot", "get", <<>>) >>)
  \o << Layer("notFound", "notFound", <<>>),
        Layer("errorHandler", "errorHandler", <<>>) >>

RoutesOf(name) ==
  IF name = "productRoutes" THEN ProductRoutes ELSE ExternalRoutes(name)

\* express.static: the file below the mount, index.html for a directory;
\* nothing for a method other than GET
StaticFile(name, method, sub) ==
  IF method # "GET" THEN None
  ELSE IF name = "staticUploads"
  THEN IF sub \in UploadFiles THEN "file" ELSE None
  ELSE IF sub = <<>> /\ <<"index.html">> \in BuildFiles THEN "index.html"
       ELSE IF sub \in BuildFiles THEN "file" ELSE None

\* no error is travelling down the stack
NoErr == 0

\* middleware/errorMiddleware.js: notFound forwards a 404 error, errorHandler
\* answers with the status of the error it is given
NotFoundError == 404
ErrorHandler(err) == [status |-> err, body |-> "error"]

\* does the layer take the request (err = NoErr) or the error (err # NoErr)
LayerTakes(L, req, err) ==
  CASE L.kind = "errorHandler" -> err # NoErr
    [] err # NoErr -> FALSE
    [] L.kind \in {"use", "notFound"} -> TRUE
    [] L.kind = "get" -> req.method = "GET" /\ req.path = L.path
    [] L.kind = "getAll" -> req.method = "GET"
    [] L.kind = "router" -> HasPrefix(req.path, L.path)
    [] L.kind = "static" -> HasPrefix(req.path, L.path)
    [] OTHER -> FALSE

Answer(trace, raised, status, body, op, id, crash) ==
  [trace |-> trace, raised |-> raised, status |-> status, body |-> body,
   op |-> op, id |-> id, crash |-> crash]

\* one request through the stack: trace lists the functions invoked, raised
\* the functions that called next(error)
RECURSIVE Walk(_, _, _, _, _, _, _, _)
Walk(stack, i, req, oc, prods, err, trace, raised) ==
  IF i > Len(stack)
  THEN Answer(trace, raised, IF err = NoErr THEN 404 ELSE err, "final",
              None, None, None)
  ELSE
  LET L == stack[i]
      t == Append(trace, L.name)
      sub == Strip(req.path, L.path)
  IN
  IF ~LayerTakes(L, req, err)
  THEN Walk(stack, i + 1, req, oc, prods, err, trace, raised)
  ELSE
  CASE L.kind = "use" ->
         Walk(stack, i + 1, req, oc, prods, err, t, raised)
    [] L.kind = "get" ->
         Answer(t, raised, 200, L.name, None, None, None)
    [] L.kind = "getAll" ->
         Answer(t, raised, 200, "index.html", None, None, None)
    [] L.kind = "static" ->
         IF StaticFile(L.name, req.method, sub) # None
         THEN Answer(t, raised, 200, StaticFile(L.name, req.method, sub),
                     None, None, None)
         ELSE Walk(stack, i + 1, req, oc, prods, err, t, raised)
    [] L.kind = "router" ->
         LET r == RunRouter(RoutesOf(L.name), 1, req, sub, oc, prods, t)
             f == r.trace[Len(r.trace)]
         IN CASE r.out.kind = "next" ->
                   Walk(stack, i + 1, req, oc, prods, err, r.trace, raised)
              [] r.out.kind = "err" ->
                   Walk(stack, i + 1, req, oc, prods, r.out.status,
                        r.trace, Append(raised, f))
              [] r.out.kind = "sent" ->
                   Answer(r.trace, raised, r.out.status, r.out.body,
                          r.out.op, ParamId(sub), None)
              [] OTHER ->
                   Answer(r.trace, raised, 0, None, None, None, r.out.kind)
    [] L.kind = "notFound" ->
         Walk(stack, i + 1, req, oc, prods, NotFoundError, t,
              Append(raised, L.name))
    [] OTHER ->
         Answer(t, raised, ErrorHandler(err).status, ErrorHandler(err).body,
                None, None, None)

ProductStates == [ProductIds -> 0..MaxRev]

\* the answer to every request, tabulated per mode and state of the
\* collection (@@ makes each table an explicit function)
Responses ==
  [m \in Modes |->
     [prods \in ProductStates |->
        [rq \in Requests \X Outcomes |->
           Walk(StackFor(m), 1, rq[1], rq[2], prods, NoErr, <<>>, <<>>)]
        @@ << >>]
     @@ << >>]
  @@ << >>

\* the stack of the running process is the one built with its NODE_ENV
Dispatch(req, oc, prods) == Responses[mode][prods][<<req, oc>>]

(***************************************************************************)
(* The process.                                                            *)
(***************************************************************************)
CrashEvents == {"unhandledRejection", "uncaughtException"}

EventOf(crash) ==
  IF crash = "reject" THEN "unhandledRejection" ELSE "uncaughtException"

AllClosed == [c \in Conns |-> "closed"]

NoRequest == [method |-> "GET", path |-> <<>>, cred |-> "none"]

NoLast ==
  [seen |-> FALSE, req |-> NoRequest,
   res |-> Answer(<<>>, <<>>, 0, None, None, None, None)]

\* process.exit(code): nothing of the process survives
Exit(code, by) ==
  /\ proc' = "exited"
  /\ exitCode' = code
  /\ exitBy' = by
  /\ conns' = AllClosed
  /\ events' = [e \in CrashEvents |-> 0]

\* config/db.js, try branch: mongoose.connect resolved
ConnectOK ==
  /\ proc = "running" /\ db = "connecting"
  /\ db' = "connected"
  /\ logs' = logs \cup {"MongoDB Connected"}
  /\ UNCHANGED <<mode, server, proc, exitCode, exitBy, conns, products,
                 last, events, closeCbs>>
  /\ UNCHANGED usrVars

\* the catch branch without its process.exit(1)
ConnectFail_NoExit ==
  /\ proc = "running" /\ db = "connecting"
  /\ db' = "failed"
  /\ logs' = logs \cup {"Error"}
  /\ UNCHANGED <<mode, server, proc, exitCode, exitBy, conns, products,
                 last, events, closeCbs>>
  /\ UNCHANGED usrVars

\* config/db.js, catch branch: log the error, process.exit(1)
ConnectFail ==
  /\ proc = "running" /\ db = "connecting"
  /\ db' = "failed"
  /\ logs' = logs \cup {"Error"}
  /\ Exit(1, "connectDB")
  /\ UNCHANGED <<mode, server, products, last, closeCbs>>
  /\ UNCHANGED usrVars

\* a client connects to the listening server
Open(c) ==
  /\ proc = "running" /\ server = "listening"
  /\ conns[c] = "closed"
  /\ conns' = [conns EXCEPT ![c] = "idle"]
  /\ UNCHANGED <<mode, db, server, proc, exitCode, exitBy, logs, products,
                 last, events, closeCbs>>
  /\ UNCHANGED usrVars

Crashes == closeCbs + events["unhandledRejection"]
           + events["uncaughtException"]

\* a request arrives on an open connection and goes through the stack; a
\* controller that crashes never answers, and the crash is queued for the
\* process-level handler
Request(c, req, oc) ==
  LET res == Dispatch(req, oc, products) IN
  /\ proc = "running"
  /\ conns[c] = "idle"
  /\ OpFits(products, res.op, res.id)
  /\ products' = ApplyOp(products, res.op, res.id)
  /\ last' = [seen |-> TRUE, req |-> req, res |-> res]
  /\ IF res.crash = None
     THEN UNCHANGED <<conns, events>>
     ELSE /\ Crashes < MaxCrashes
          /\ conns' = [conns EXCEPT ![c] = "hung"]
          /\ events' = [events EXCEPT ![EventOf(res.crash)] = @ + 1]
  /\ UNCHANGED <<mode, db, server, proc, exitCode, exitBy, logs, closeCbs>>
  /\ UNCHANGED usrVars

\* server.close(cb): stop listening, run cb once every connection has ended
ServerClose ==
  /\ server' = "closing"
  /\ closeCbs' = closeCbs + 1

\* process.on('unhandledRejection')
UnhandledRejection ==
  /\ proc = "running"
  /\ events["unhandledRejection"] > 0
  /\ events' = [events EXCEPT !["unhandledRejection"] = @ - 1]
  /\ logs' = logs \cup {"Unhandled Rejection"}
  /\ ServerClose
  /\ UNCHANGED <<mode, db, proc, exitCode, exitBy, conns, products, last>>
  /\ UNCHANGED usrVars

\* process.on('uncaughtException')
UncaughtException ==
  /\ proc = "running"
  /\ events["uncaughtException"] > 0
  /\ events' = [events EXCEPT !["uncaughtException"] = @ - 1]
  /\ logs' = logs \cup {"Uncaught Exception"}
  /\ ServerClose
  /\ UNCHANGED <<mode, db, proc, exitCode, exitBy, conns, products, last>>
  /\ UNCHANGED usrVars

\* the server closes a connection that stayed idle for keepAliveTimeout
KeepAliveTimeout(c) ==
  /\ proc = "running"
  /\ conns[c] = "idle"
  /\ conns' = [conns EXCEPT ![c] = "closed"]
  /\ UNCHANGED <<mode, db, server, proc, exitCode, exitBy, logs, products,
                 last, events, closeCbs>>
  /\ UNCHANGED usrVars

\* the client drops its connection
ClientClose(c) ==
  /\ proc = "running"
  /\ conns[c] \in {"idle", "hung"}
  /\ conns' = [conns EXCEPT ![c] = "closed"]
  /\ UNCHANGED <<mode, db, server, proc, exitCode, exitBy, logs, products,
                 last, events, closeCbs>>
  /\ UNCHANGED usrVars

\* the last connection of a closing server has ended: 'close' is emitted and
\* the callbacks given to server.close run process.exit(1)
ServerClosed ==
  /\ proc = "running"
  /\ server = "closing"
  /\ \A c \in Conns : conns[c] = "closed"
  /\ server' = "closed"
  /\ Exit(1, "serverClose")
  /\ UNCHANGED <<mode, db, logs, products, last, closeCbs>>
  /\ UNCHANGED usrVars

(***************************************************************************)
(* User documents (the User schema, its pre-save hook and matchPassword).  *)
(* A string is the sequence of its runs <<character, length>>, so that     *)
(* strings longer than bcrypt's input limit are in reach.                  *)
(***************************************************************************)
Run(ch, n) == << <<ch, n>> >>

RECURSIVE StrLen(_)
StrLen(str) == IF str = << >> THEN 0 ELSE str[1][2] + StrLen(Tail(str))

\* the first n bytes of str
RECURSIVE Take(_, _)
Take(str, n) ==
  IF n = 0 \/ str = << >> THEN << >>
  ELSE IF str[1][2] <= n
       THEN << str[1] >> \o Take(Tail(str), n - str[1][2])
       ELSE Run(str[1][1], n)

\* password: minlength 8
MinPasswordLen == 8
\* bcrypt.genSalt(12)
SaltRounds == 12
\* bcrypt reads at most this many bytes of its input
BcryptMaxBytes == 72

Plaintexts ==
  { Run("a", 7), Run("a", 8),
    Run("a", 72) \o Run("b", 1), Run("a", 72) \o Run("c", 1) }

Names == {"Ada", "Bob"}
\* the document a request handler holds; handlers share no documents
DocIds == {"d1"}
UserIds == {"u1"}
Salts == 1..MaxSalts

\* a value of the password field: not loaded, a string as supplied, or a
\* bcrypt hash (its salt, its cost and the digest, which is a function of the
\* salt, the cost and the bytes bcrypt read)
NoPassword == [kind |-> "absent", text |-> << >>, rnd |-> 0, rounds |-> 0]
Plain(str) == [kind |-> "plain", text |-> str, rnd |-> 0, rounds |-> 0]

\* bcrypt.genSalt(rounds): rnd is the random part
GenSalt(rounds, rnd) == [rnd |-> rnd, rounds |-> rounds]

\* bcrypt.hash(s, salt)
BcryptHash(str, salt) ==
  [kind |-> "hash", text |-> Take(str, BcryptMaxBytes), rnd |-> salt.rnd,
   rounds |-> salt.rounds]

\* bcrypt.compare(s, hash): hash s with the salt and cost found in hash
BcryptCompare(str, hash) ==
  /\ hash.kind = "hash"
  /\ BcryptHash(str, GenSalt(hash.rounds, hash.rnd)) = hash

NoDoc ==
  [live |-> FALSE, id |-> None, isNew |-> FALSE, name |-> None,
   password |-> NoPassword, modified |-> {}]

NoUser == [stored |-> FALSE, name |-> None, password |-> NoPassword]

\* the last save: the hook's calls and the way the save ended; quiet counts
\* the saves in a row that stored the document without a modified password
NoSave ==
  [n |-> 0, doc |-> None, id |-> None, outcome |-> None,
   pwModified |-> FALSE, hashes |-> 0, quiet |-> 0]

NoMatchLog == [candidate |-> << >>, result |-> FALSE]

\* new User({ name, password })
NewUser(d, u, name, str) ==
  /\ ~docs[d].live
  /\ ~users[u].stored
  /\ \A e \in DocIds : docs[e].live => docs[e].id # u
  /\ docs' = [docs EXCEPT ![d] =
                [live |-> TRUE, id |-> u, isNew |-> TRUE, name |-> name,
                 password |-> Plain(str), modified |-> {"name", "password"}]]
  /\ UNCHANGED <<users, saveLog, matchLog>>
  /\ UNCHANGED srvVars

\* User.findById(u), with .select('+password') when sel
Load(d, u, sel) ==
  /\ ~docs[d].live
  /\ users[u].stored
  /\ docs' = [docs EXCEPT ![d] =
                [live |-> TRUE, id |-> u, isNew |-> FALSE,
                 name |-> users[u].name,
                 password |-> IF sel THEN users[u].password ELSE NoPassword,
                 modified |-> {}]]
  /\ UNCHANGED <<users, saveLog, matchLog>>
  /\ UNCHANGED srvVars

\* doc.name = name
SetName(d, name) ==
  /\ docs[d].live
  /\ docs' = [docs EXCEPT ![d].name = name,
                          ![d].modified =
                             IF name = docs[d].name THEN @
                             ELSE @ \cup {"name"}]
  /\ UNCHANGED <<users, saveLog, matchLog>>
  /\ UNCHANGED srvVars

\* doc.password = str
SetPassword(d, str) ==
  /\ docs[d].live
  /\ docs' = [docs EXCEPT ![d].password = Plain(str),
                          ![d].modified =
                             IF Plain(str) = docs[d].password THEN @
                             ELSE @ \cup {"password"}]
  /\ UNCHANGED <<users, saveLog, matchLog>>
  /\ UNCHANGED srvVars

\* the document goes out of scope
Drop(d) ==
  /\ docs[d].live
  /\ ~docs[d].isNew
  /\ docs' = [docs EXCEPT ![d] = NoDoc]
  /\ UNCHANGED <<users, saveLog, matchLog>>
  /\ UNCHANGED srvVars

\* this.isModified(path)
IsModified(doc, path) == path \in doc.modified

\* this.password = value: an assignment marks the path modified
AssignPassword(doc, value) ==
  [doc EXCEPT !.password = value, !.modified = @ \cup {"password"}]

\* the schema's validators on the paths being saved
Valid(doc) ==
  IsModified(doc, "password") =>
    StrLen(doc.password.text) >= MinPasswordLen

\* the hook with its condition inverted
PreSave_Inverted(doc, rnd, hashOK) ==
  IF IsModified(doc, "password")
  THEN [doc |-> doc, err |-> None, hashes |-> 0]
  ELSE [doc |-> AssignPassword(doc,
                  BcryptHash(doc.password.text, GenSalt(SaltRounds, rnd))),
        err |-> None, hashes |-> 1]

\* the hook without its isModified test
PreSave_AlwaysHash(doc, rnd, hashOK) ==
  IF hashOK /\ doc.password.kind # "absent"
  THEN [doc |-> AssignPassword(doc,
                  BcryptHash(doc.password.text, GenSalt(SaltRounds, rnd))),
        err |-> None, hashes |-> 1]
  ELSE [doc |-> doc, err |-> "hashError", hashes |-> 0]

\* userSchema.pre('save'): the document as the hook leaves it, the error it
\* passes to next, and the number of bcrypt.hash calls it made
PreSave(doc, rnd, hashOK) ==
  IF ~IsModified(doc, "password")
  THEN [doc |-> doc, err |-> None, hashes |-> 0]
  ELSE IF hashOK
       THEN [doc |-> AssignPassword(doc,
                       BcryptHash(doc.password.text, GenSalt(SaltRounds, rnd))),
             err |-> None, hashes |-> 1]
       ELSE [doc |-> doc, err |-> "hashError", hashes |-> 0]

\* what the save writes: the whole document when new, else the modified paths
Persist(user, doc) ==
  [stored |-> TRUE,
   name |-> IF doc.isNew \/ IsModified(doc, "name")
            THEN doc.name ELSE user.name,
   password |-> IF doc.isNew \/ IsModified(doc, "password")
                THEN doc.password ELSE user.password]

\* doc.save(): validate, run the pre-save hook, write, reset the modified paths
Save(d, rnd, hashOK) ==
  LET doc == docs[d]
      hook == PreSave(doc, rnd, hashOK)
      outcome == IF ~Valid(doc) THEN "validationError"
                 ELSE IF hook.err # None THEN hook.err ELSE "saved"
  IN
  /\ doc.live
  /\ saveLog.n < MaxSaves
  /\ saveLog' = [n |-> saveLog.n + 1, doc |-> d, id |-> doc.id,
                 outcome |-> outcome,
                 pwModified |-> IsModified(doc, "password"),
                 hashes |-> IF Valid(doc) THEN hook.hashes ELSE 0,
                 quiet |-> IF outcome = "saved" /\ ~IsModified(doc, "password")
                           THEN saveLog.quiet + 1 ELSE 0]
  /\ IF outcome = "saved"
     THEN /\ users' = [users EXCEPT ![doc.id] = Persist(@, hook.doc)]
          /\ docs' = [docs EXCEPT ![d] =
                        [hook.doc EXCEPT !.isNew = FALSE, !.modified = {}]]
     ELSE UNCHANGED <<users, docs>>
  /\ UNCHANGED matchLog
  /\ UNCHANGED srvVars

\* userSchema.methods.matchPassword
MatchPassword(doc, candidate) == BcryptCompare(candidate, doc.password)

\* a caller awaits doc.matchPassword(candidate)
Match(d, candidate) ==
  /\ docs[d].live
  /\ docs[d].password.kind # "absent"
  /\ matchLog' = [candidate |-> candidate,
                  result |-> MatchPassword(docs[d], candidate)]
  /\ UNCHANGED <<users, docs, saveLog>>
  /\ UNCHANGED srvVars

\* no document is in memory, the collection is empty; the process is up and
\* connected
InitUser ==
  /\ users = [u \in UserIds |-> NoUser]
  /\ docs = [d \in DocIds |-> NoDoc]
  /\ saveLog = NoSave
  /\ matchLog = NoMatchLog
  /\ mode = "development"
  /\ db = "connected"
  /\ server = "listening"
  /\ proc = "running"
  /\ exitCode = 0
  /\ exitBy = None
  /\ logs = {"Server is running", "MongoDB Connected"}
  /\ conns = AllClosed
  /\ products = [p \in ProductIds |-> 0]
  /\ last = NoLast
  /\ events = [e \in CrashEvents |-> 0]
  /\ closeCbs = 0

NextUser ==
  \/ \E d \in DocIds, u \in UserIds, name \in Names, str \in Plaintexts :
       NewUser(d, u, name, str)
  \/ \E d \in DocIds, u \in UserIds, sel \in BOOLEAN : Load(d, u, sel)
  \/ \E d \in DocIds, name \in Names : SetName(d, name)
  \/ \E d \in DocIds, str \in Plaintexts : SetPassword(d, str)
  \/ \E d \in DocIds : Drop(d)
  \/ \E d \in DocIds, rnd \in Salts, hashOK \in BOOLEAN : Save(d, rnd, hashOK)
  \/ \E d \in DocIds, str \in Plaintexts : Match(d, str)

SpecUser == InitUser /\ [][NextUser]_vars

\* server.js has run to its last line: connectDB() is called and not awaited,
\* the stack is built, the server listens, the process handlers are installed;
\* no User document is in memory
InitServer ==
  /\ mode \in Modes
  /\ db = "connecting"
  /\ server = "listening"
  /\ proc = "running"
  /\ exitCode = 0
  /\ exitBy = None
  /\ logs = {"Server is running"}
  /\ conns = AllClosed
  /\ products \in [ProductIds -> {0, 1}]
  /\ last = NoLast
  /\ events = [e \in CrashEvents |-> 0]
  /\ closeCbs = 0
  /\ users = [u \in UserIds |-> NoUser]
  /\ docs = [d \in DocIds |-> NoDoc]
  /\ saveLog = NoSave
  /\ matchLog = NoMatchLog

NextServer ==
  \/ ConnectOK
  \/ ConnectFail
  \/ \E c \in Conns : Open(c)
  \/ \E c \in Conns, req \in ProbeRequests, oc \in Outcomes :
       Request(c, req, oc)
  \/ UnhandledRejection
  \/ UncaughtException
  \/ \E c \in Conns : KeepAliveTimeout(c)
  \/ \E c \in Conns : ClientClose(c)
  \/ ServerClosed

SpecServer == InitServer /\ [][NextServer]_vars

\* the routing of every request, on one connection of a process that stays up
NextRoutes ==
  \/ ConnectOK
  \/ Open(1)
  \/ \E req \in Requests, oc \in {"ok", "error"} : Request(1, req, oc)

SpecRoutes == InitServer /\ [][NextRoutes]_vars

Spec == SpecServer

(***************************************************************************)
(* Properties.                                                             *)
(***************************************************************************)
SaveStep == saveLog'.n = saveLog.n + 1

Saved(u) == users[u].stored

\* C1: the stored password is never the supplied plaintext: it is always a
\* bcrypt hash of cost 12; a save with a modified password stores the hash
\* of the supplied string under a fresh salt, the hook calls bcrypt.hash at
\* most once per save, and a save whose hashing fails writes nothing.
C1_PasswordHashedAtRest ==
  /\ [](\A u \in UserIds :
          Saved(u) => /\ users[u].password.kind = "hash"
                      /\ users[u].password.rounds = 12
                      /\ users[u].password \notin {Plain(s) : s \in Plaintexts})
  /\ [][SaveStep =>
          LET log == saveLog'
              supplied == docs[log.doc].password.text
          IN /\ log.hashes <= 1
             /\ (log.outcome = "saved" /\ log.pwModified) =>
                  /\ log.hashes = 1
                  /\ \E rnd \in Salts :
                       users'[log.id].password
                         = BcryptHash(supplied, GenSalt(12, rnd))
             /\ log.outcome = "hashError" =>
                  /\ log.pwModified
                  /\ users' = users]_vars

\* a later save changed the password of a stored user
C1_Witness ==
  /\ saveLog.n >= 2
  /\ saveLog.outcome = "saved"
  /\ saveLog.pwModified
  /\ Saved(saveLog.id)

\* C2: a save of a stored user whose password path is not modified leaves the
\* stored hash as it was and calls neither genSalt nor hash, however many
\* such saves follow each other.
C2_UnmodifiedPasswordKept ==
  [][(SaveStep /\ ~saveLog'.pwModified /\ Saved(saveLog'.id)) =>
       /\ saveLog'.outcome = "saved"
       /\ saveLog'.hashes = 0
       /\ users'[saveLog'.id].password = users[saveLog'.id].password]_vars

\* two such saves in a row have happened
C2_Witness ==
  /\ saveLog.quiet >= 2
  /\ Saved(saveLog.id)

\* C3: after a save of plaintext P, matchPassword(P) is true and
\* matchPassword(P') is false for every other P'; matchPassword changes
\* neither the document nor the store.
C3_MatchExactlySaved ==
  /\ [][(SaveStep /\ saveLog'.outcome = "saved" /\ saveLog'.pwModified) =>
          \A candidate \in Plaintexts :
            MatchPassword(docs'[saveLog'.doc], candidate)
              = (candidate = docs[saveLog'.doc].password.text)]_vars
  /\ [][matchLog' # matchLog => UNCHANGED <<users, docs>>]_vars

Trace == last.res.trace

\* position of the first call of f in the trace, 0 when f was not called
Pos(f) ==
  IF \E i \in 1..Len(Trace) : Trace[i] = f
  THEN CHOOSE i \in 1..Len(Trace) :
         Trace[i] = f /\ \A j \in 1..(i - 1) : Trace[j] # f
  ELSE 0

Called(f) == Pos(f) > 0

SubPath == Strip(last.req.path, <<"api", "products">>)

Mutators == {"createProduct", "updateProduct", "deleteProduct"}

\* POST /api/products, PUT /api/products/:id, DELETE /api/products/:id
OnMutatingRoute ==
  /\ HasPrefix(last.req.path, <<"api", "products">>)
  /\ \/ last.req.method = "POST" /\ Len(SubPath) = 0
     \/ last.req.method \in {"PUT", "DELETE"} /\ Len(SubPath) = 1

IdHandlers ==
  {"getProductById", "updateProduct", "deleteProduct", "createProductReview"}

\* GET, PUT, DELETE /api/products/:id and POST /api/products/:id/reviews;
\* GET /api/products/top is the /top route, declared before /:id
OnIdRoute ==
  /\ HasPrefix(last.req.path, <<"api", "products">>)
  /\ \/ /\ last.req.method \in {"GET", "PUT", "DELETE"}
        /\ Len(SubPath) = 1
        /\ ~(last.req.method = "GET" /\ SubPath = <<"top">>)
     \/ /\ last.req.method = "POST"
        /\ Len(SubPath) = 2 /\ SubPath[2] = "reviews"

\* C5: on the routes with an :id parameter a request whose :id is not a
\* well-formed identifier gets a 4xx answer and the route's handler is not
\* called; a guard that rejects is the last function of its chain to run, and
\* every guard called before it let the request through.
C5_BadIdRejected ==
  last.seen =>
    /\ (OnIdRoute /\ ParamId(SubPath) \notin WellFormedIds) =>
         /\ last.res.status \in 400..499
         /\ \A h \in IdHandlers : ~Called(h)
    /\ \A i \in 1..Len(Trace) :
         (Trace[i] \in Guards
            /\ ~GuardAccepts(Trace[i], last.req, ParamId(SubPath))) =>
           /\ i + 1 = Len(Trace)
           /\ Trace[i + 1] = "errorHandler"
           /\ \A j \in 1..(i - 1) :
                Trace[j] \in Guards =>
                  GuardAccepts(Trace[j], last.req, ParamId(SubPath))

\* GET /api/products/not-a-valid-id was stopped by checkObjectId
C5_Witness ==
  /\ last.seen /\ OnIdRoute
  /\ last.req.method = "GET"
  /\ ParamId(SubPath) = BadId
  /\ Called("checkObjectId")
  /\ last.res.status = 404

RealKinds == {"get", "getAll", "router", "static"}

\* a real route of the stack has something for the request
Serves(L, req) ==
  /\ L.kind \in RealKinds
  /\ LayerTakes(L, req, NoErr)
  /\ L.kind = "router" =>
       \E n \in 1..Len(RoutesOf(L.name)) :
         RouteMatches(RoutesOf(L.name)[n], req, Strip(req.path, L.path))
  /\ L.kind = "static" =>
       StaticFile(L.name, req.method, Strip(req.path, L.path)) # None

StackPos(name) ==
  CHOOSE i \in 1..Len(StackFor(mode)) : StackFor(mode)[i].name = name

C7_IndexOnlyOutsideApi ==
  (last.seen /\ last.res.body = "index.html") =>
    /\ mode = "production"
    /\ ~UnderApi(last.req.path)

\* C8: the one connection attempt settles once; when it fails the error is
\* logged and the process exits with code 1, and no request is handled after
\* the failure; when it succeeds connectDB never ends the process.
C8_ConnectFailureExits ==
  /\ [](db = "failed" => /\ proc = "exited"
                         /\ exitCode = 1
                         /\ "Error" \in logs)
  /\ [](exitBy = "connectDB" <=> db = "failed")
  /\ [][db # "connecting" => db' = db]_vars
  /\ [][db = "failed" => last' = last /\ products' = products]_vars

\* the connection failed under a server that had already answered a request
C8_Witness ==
  /\ db = "failed"
  /\ last.seen
  /\ proc = "exited"

\* C9: once a process-level crash handler has run, the process eventually
\* exits with code 1.
C9_CrashExits ==
  (closeCbs > 0) ~> (proc = "exited" /\ exitCode = 1)

\* C10: no request is handled unless the database connection is established.
C10_NoRequestBeforeConnected ==
  [][last' # last => db = "connected"]_vars

\* what the event loop guarantees: ready callbacks and timers run; clients
\* are under no obligation
FairSpecServer ==
  /\ SpecServer
  /\ WF_vars(ConnectOK \/ ConnectFail)
  /\ WF_vars(UnhandledRejection)
  /\ WF_vars(UncaughtException)
  /\ \A c \in Conns : WF_vars(KeepAliveTimeout(c))
  /\ WF_vars(ServerClosed)

====
